---- MODULE Spec2Model ----
(***************************************************************************)
(* The persistent event store of the Supercon 8 badge calendar scripts:    *)
(* variable-length Event records packed into 250-byte slots of a 4 KB I2C  *)
(* EEPROM.  The model follows src/Calendar/Calendar_demo.py (interactive   *)
(* menu, save with read-back, wipe with confirmation and verification) and *)
(* src/Calendar/CalendarReset.py (same functions without read-back, wipe   *)
(* without confirmation).  src/ConnectingWithFriends.py and                *)
(* src/Calendar/i2cDectectionAndCalendarCombined_demo.py hold further      *)
(* copies of the same functions.                                           *)
(*                                                                         *)
(* The EEPROM behind i2c.writeto_mem / i2c.readfrom_mem is a byte array of *)
(* EEPROM_SIZE cells; a transport call succeeds, raises OSError, or (for a *)
(* read) delivers fewer bytes than were asked for.  A str is a sequence of *)
(* code points, bytes are numbers 0..255, a 32-bit time is a pair of       *)
(* 16-bit halves <<high, low>>.                                            *)
(***************************************************************************)
EXTENDS Integers, Sequences, FiniteSets, TLC

(***************************************************************************)
(* Program constants                                                       *)
(***************************************************************************)
EEPROM_SIZE == 4096
PAGE_SIZE == 32
EVENT_SIZE == 250
MAX_NAME_BYTES == 50
MAX_SPEAKER_BYTES == 50
MAX_DESCRIPTION_BYTES == 138
MAX_RECORD_BYTES == 250
SETTLE_MS == 10
MAX_EVENTS == 10
MAX_MENU_ADDRESS == 4095
ERASED == 255

(***************************************************************************)
(* Bounds of the exploration                                               *)
(***************************************************************************)
\* operations run after power-up
MaxOps == 2
\* transport calls that misbehave in one run
MaxFaults == 1
\* a fault hits one of the first MaxFaultCall transport calls of a step
MaxFaultCall == 9

Min(a, b) == IF a < b THEN a ELSE b

Fill(n, b) == [i \in 1..n |-> b]

\* the sequences of ss joined in order (halving keeps the evaluation shallow)
RECURSIVE Concat(_)
Concat(ss) ==
    IF Len(ss) = 0 THEN <<>>
    ELSE IF Len(ss) = 1 THEN ss[1]
    ELSE LET h == Len(ss) \div 2
         IN Concat(SubSeq(ss, 1, h)) \o Concat(SubSeq(ss, h + 1, Len(ss)))

(***************************************************************************)
(* str.encode('utf-8') and bytes.decode('utf-8')                           *)
(***************************************************************************)
\* variant: two bytes for every character, as UTF-16 does for the basic plane
Utf8EncodeCharWide(c) == <<(c \div 256) % 256, c % 256>>


Utf8EncodeChar(c) ==
    IF c < 128 THEN <<c>>
    ELSE IF c < 2048 THEN <<192 + (c \div 64), 128 + (c % 64)>>
    ELSE IF c < 65536
         THEN <<224 + (c \div 4096), 128 + ((c \div 64) % 64), 128 + (c % 64)>>
    ELSE <<240 + (c \div 262144), 128 + ((c \div 4096) % 64),
           128 + ((c \div 64) % 64), 128 + (c % 64)>>

Utf8Encode(s) == Concat([i \in 1..Len(s) |-> Utf8EncodeChar(s[i])])

IsCont(b) == b >= 128 /\ b < 192

\* number of continuation bytes announced by a lead byte, -1 if b cannot lead
Utf8Need(b) ==
    IF b < 128 THEN 0
    ELSE IF b < 192 THEN -1
    ELSE IF b < 224 THEN 1
    ELSE IF b < 240 THEN 2
    ELSE IF b < 248 THEN 3
    ELSE -1

Utf8Lead(b, need) ==
    IF need = 0 THEN b
    ELSE IF need = 1 THEN b - 192
    ELSE IF need = 2 THEN b - 224
    ELSE b - 240

\* the code point of the character that starts at bytes[i]
Utf8CharAt(bytes, i) ==
    LET need == Utf8Need(bytes[i])
        c0 == Utf8Lead(bytes[i], need)
        c1 == IF need >= 1 THEN c0 * 64 + (bytes[i + 1] - 128) ELSE c0
        c2 == IF need >= 2 THEN c1 * 64 + (bytes[i + 2] - 128) ELSE c1
    IN IF need >= 3 THEN c2 * 64 + (bytes[i + 3] - 128) ELSE c2

\* the structure the decoder insists on: the text starts with a lead byte, and
\* every lead byte is followed by exactly the continuation bytes it announces
Utf8Valid(bytes) ==
    /\ bytes = <<>> \/ ~IsCont(bytes[1])
    /\ \A i \in 1..Len(bytes) :
          IsCont(bytes[i])
          \/ LET need == Utf8Need(bytes[i])
             IN /\ need >= 0
                /\ i + need <= Len(bytes)
                /\ \A k \in 1..need : IsCont(bytes[i + k])
                /\ i + need + 1 <= Len(bytes) => ~IsCont(bytes[i + need + 1])

\* [ok, str]: ok is FALSE where decode raises ValueError
Utf8Decode(bytes) ==
    IF ~Utf8Valid(bytes) THEN [ok |-> FALSE, str |-> <<>>]
    ELSE LET starts == SelectSeq([i \in 1..Len(bytes) |-> i],
                                 LAMBDA i : ~IsCont(bytes[i]))
         IN [ok |-> TRUE,
             str |-> [j \in 1..Len(starts) |-> Utf8CharAt(bytes, starts[j])]]

(***************************************************************************)
(* int.to_bytes(n, 'big') and int.from_bytes(b, 'big')                      *)
(***************************************************************************)
ToBytes2(n) == <<(n \div 256) % 256, n % 256>>

\* variant: a reader that takes the low byte for the whole length
FromBytes2Low(b) == b[2]

FromBytes2(b) == b[1] * 256 + b[2]

\* variant: the four bytes in little-endian order
ToBytes4LittleEndian(t) ==
    <<t[2] % 256, (t[2] \div 256) % 256, t[1] % 256, (t[1] \div 256) % 256>>

\* a 32-bit value is <<high half, low half>>
ToBytes4(t) == ToBytes2(t[1]) \o ToBytes2(t[2])

\* variant: a reader that takes the four bytes in little-endian order
FromBytes4LittleEndian(b) == <<b[4] * 256 + b[3], b[2] * 256 + b[1]>>

FromBytes4(b) == <<FromBytes2(SubSeq(b, 1, 2)), FromBytes2(SubSeq(b, 3, 4))>>

(***************************************************************************)
(* class Event                                                             *)
(***************************************************************************)
Event(event_name, start_time, end_time, speaker_name, description) ==
    [event_name |-> event_name, start_time |-> start_time, end_time |-> end_time,
     speaker_name |-> speaker_name, description |-> description]

\* None and a returned object
None == <<>>
Some(x) == <<x>>

(***************************************************************************)
(* The device behind the I2C transport                                     *)
(***************************************************************************)
\* the cells are kept page by page: mem[p][j] is the cell at address
\* PAGE_SIZE * (p - 1) + (j - 1).  The 4 KB part decodes 12 address bits, so
\* an address selects the cell address % EEPROM_SIZE
PageCount == EEPROM_SIZE \div PAGE_SIZE

CellAt(mem, address) ==
    LET a == address % EEPROM_SIZE
    IN mem[(a \div PAGE_SIZE) + 1][(a % PAGE_SIZE) + 1]

\* the bytes of the cells address .. address + length - 1, page after page
\* (a range that leaves its first page is read in two halves, which keeps the
\* evaluation shallow)
RECURSIVE DevRead(_, _, _)
DevRead(mem, address, length) ==
    IF length <= 0 THEN <<>>
    ELSE LET a == address % EEPROM_SIZE
             o == a % PAGE_SIZE
         IN IF length <= PAGE_SIZE - o
            THEN SubSeq(mem[(a \div PAGE_SIZE) + 1], o + 1, o + length)
            ELSE DevRead(mem, a, length \div 2)
                 \o DevRead(mem, a + (length \div 2), length - (length \div 2))

\* variant: a device whose write rolls over inside the page it starts in
DevWriteRollOver(mem, address, chunk) ==
    IF chunk = <<>> THEN mem
    ELSE LET a == address % EEPROM_SIZE
             p == (a \div PAGE_SIZE) + 1
             o == a % PAGE_SIZE
         IN [mem EXCEPT ![p] =
                [j \in 1..PAGE_SIZE |->
                    LET k == ((j - 1 - o + PAGE_SIZE) % PAGE_SIZE) + 1
                    IN IF k <= Len(chunk) THEN chunk[k] ELSE mem[p][j]]]

\* the cells address .. address + Len(chunk) - 1 take the bytes of chunk, page
\* after page; no cell outside that range changes
RECURSIVE DevWrite(_, _, _)
DevWrite(mem, address, chunk) ==
    IF chunk = <<>> THEN mem
    ELSE LET a == address % EEPROM_SIZE
             p == (a \div PAGE_SIZE) + 1
             o == a % PAGE_SIZE
             k == Min(Len(chunk), PAGE_SIZE - o)
             page == SubSeq(mem[p], 1, o) \o SubSeq(chunk, 1, k)
                     \o SubSeq(mem[p], o + k + 1, PAGE_SIZE)
         IN DevWrite([mem EXCEPT ![p] = page], a + k, SubSeq(chunk, k + 1, Len(chunk)))

\* a fault plan names the transport calls (counted from 0 within a step) that
\* raise OSError and the reads that come back short
NoFaults == [fail |-> {}, short |-> {}]

Outcome(plan, call) ==
    IF call \in plan.fail THEN "fail"
    ELSE IF call \in plan.short THEN "short"
    ELSE "ok"

\* entries of the transport log
WriteCall(address, chunk, outcome) ==
    [op |-> "write", address |-> address, length |-> Len(chunk), data |-> chunk,
     outcome |-> outcome]

\* variant: a read that goes to the transport as a write of length bytes
ReadCallAsWrite(address, length, outcome) ==
    [op |-> "write", address |-> address, length |-> length, data |-> <<>>,
     outcome |-> outcome]

ReadCall(address, length, outcome) ==
    [op |-> "read", address |-> address, length |-> length, data |-> <<>>,
     outcome |-> outcome]

\* variant: a settle delay of 5 ms
SleepCallFive ==
    [op |-> "sleep", address |-> 0, length |-> 5, data |-> <<>>, outcome |-> "ok"]

\* time.sleep_ms(10)
SleepCall ==
    [op |-> "sleep", address |-> 0, length |-> SETTLE_MS, data |-> <<>>, outcome |-> "ok"]

FaultsIn(log) == Cardinality({i \in DOMAIN log : log[i].outcome # "ok"})

(***************************************************************************)
(* write_bytes_to_eeprom, read_bytes_from_eeprom, read_string_from_eeprom  *)
(***************************************************************************)
\* variant: a loop without the break, which goes on to the chunks after a
\* failed one
RECURSIVE WriteChunksOn(_, _, _, _, _, _)
WriteChunksOn(mem, address, data, plan, call, log) ==
    IF data = <<>>
    THEN [mem |-> mem, log |-> log, call |-> call, failed |-> FALSE]
    ELSE LET chunk == SubSeq(data, 1, Min(PAGE_SIZE, Len(data)))
             rest == SubSeq(data, Len(chunk) + 1, Len(data))
         IN IF Outcome(plan, call) # "fail"
            THEN WriteChunksOn(DevWrite(mem, address, chunk), address + Len(chunk), rest,
                               plan, call + 1,
                               log \o <<WriteCall(address, chunk, "ok"), SleepCall>>)
            ELSE WriteChunksOn(mem, address + Len(chunk), rest, plan, call + 1,
                               Append(log, WriteCall(address, chunk, "fail")))

\* variant: a loop that passes a failed chunk to the transport again
RECURSIVE WriteChunksRetry(_, _, _, _, _, _)
WriteChunksRetry(mem, address, data, plan, call, log) ==
    IF data = <<>>
    THEN [mem |-> mem, log |-> log, call |-> call, failed |-> FALSE]
    ELSE LET chunk == SubSeq(data, 1, Min(PAGE_SIZE, Len(data)))
             rest == SubSeq(data, Len(chunk) + 1, Len(data))
         IN IF Outcome(plan, call) # "fail"
            THEN WriteChunksRetry(DevWrite(mem, address, chunk), address + Len(chunk),
                                  rest, plan, call + 1,
                                  log \o <<WriteCall(address, chunk, "ok"), SleepCall>>)
            ELSE WriteChunksRetry(mem, address, data, plan, call + 1,
                                  Append(log, WriteCall(address, chunk, "fail")))

\* the while loop: [mem, log, call, failed]; a failed write leaves the cells alone
RECURSIVE WriteChunks(_, _, _, _, _, _)
WriteChunks(mem, address, data, plan, call, log) ==
    IF data = <<>>
    THEN [mem |-> mem, log |-> log, call |-> call, failed |-> FALSE]
    ELSE LET chunk == SubSeq(data, 1, Min(PAGE_SIZE, Len(data)))
             rest == SubSeq(data, Len(chunk) + 1, Len(data))
         IN IF Outcome(plan, call) # "fail"
            THEN WriteChunks(DevWrite(mem, address, chunk), address + Len(chunk), rest,
                             plan, call + 1,
                             log \o <<WriteCall(address, chunk, "ok"), SleepCall>>)
            ELSE [mem |-> mem, log |-> Append(log, WriteCall(address, chunk, "fail")),
                  call |-> call + 1, failed |-> TRUE]

write_bytes_to_eeprom(prog, mem, address, data, plan, call) ==
    LET w == WriteChunks(mem, address, data, plan, call, <<>>)
    IN [mem |-> w.mem, log |-> w.log, call |-> w.call, failed |-> w.failed,
        raised |-> "",
        out |-> (IF w.failed THEN <<"Failed to write to EEPROM:">> ELSE <<>>)
                \o (IF prog = "Calendar_demo"
                    THEN <<"Bytes written to EEPROM successfully.">> ELSE <<>>)]

\* data is None on OSError, else the bytes delivered
read_bytes_from_eeprom(mem, address, length, plan, call) ==
    LET o == Outcome(plan, call)
    IN [data |-> IF o = "fail" THEN None
                 ELSE IF o = "short" THEN Some(DevRead(mem, address, length - 1))
                 ELSE Some(DevRead(mem, address, length)),
        log |-> <<ReadCall(address, length, o)>>,
        out |-> IF o = "fail" THEN <<"Failed to read from EEPROM:">> ELSE <<>>]

\* variant: a reader that hands on whatever bytes came, short or undecodable
read_string_lenient(mem, address, length, plan, call) ==
    LET r == read_bytes_from_eeprom(mem, address, length, plan, call)
    IN IF r.data # None
       THEN [str |-> Some(r.data[1]), log |-> r.log, out |-> r.out]
       ELSE [str |-> None, log |-> r.log,
             out |-> r.out \o <<"Failed to read bytes from EEPROM">>]

read_string_from_eeprom(mem, address, length, plan, call) ==
    LET r == read_bytes_from_eeprom(mem, address, length, plan, call)
    IN IF r.data # None /\ Len(r.data[1]) = length
       THEN LET d == Utf8Decode(r.data[1])
            IN IF d.ok
               THEN [str |-> Some(d.str), log |-> r.log, out |-> r.out]
               ELSE [str |-> None, log |-> r.log,
                     out |-> r.out \o <<"Failed to decode string from EEPROM:">>]
       ELSE [str |-> None, log |-> r.log,
             out |-> r.out \o <<"Failed to read bytes from EEPROM">>]

(***************************************************************************)
(* save_event_to_eeprom                                                    *)
(***************************************************************************)
\* variant: a record whose description length takes one byte
SerializeOneByteLength(event_name_bytes, start_time, end_time, speaker_name_bytes, description_bytes) ==
    <<Len(event_name_bytes)>> \o event_name_bytes
    \o ToBytes4(start_time) \o ToBytes4(end_time)
    \o <<Len(speaker_name_bytes)>> \o speaker_name_bytes
    \o <<Len(description_bytes) % 256>> \o description_bytes

Serialize(event_name_bytes, start_time, end_time, speaker_name_bytes, description_bytes) ==
    <<Len(event_name_bytes)>> \o event_name_bytes
    \o ToBytes4(start_time) \o ToBytes4(end_time)
    \o <<Len(speaker_name_bytes)>> \o speaker_name_bytes
    \o ToBytes2(Len(description_bytes)) \o description_bytes

\* variant: a save that checks the size of the whole record only
EncodeEventSizeOnly(event) ==
    LET data == Serialize(Utf8Encode(event.event_name), event.start_time, event.end_time,
                          Utf8Encode(event.speaker_name), Utf8Encode(event.description))
    IN IF Len(data) > MAX_RECORD_BYTES
       THEN [rejection |-> "Serialized event size exceeds 250 bytes. Cannot save.",
             data |-> <<>>]
       ELSE [rejection |-> "", data |-> data]

\* the serialization part: [rejection, data]; rejection is the message of the
\* check that turns the event away, "" if none does
EncodeEvent(event) ==
    LET event_name_bytes == Utf8Encode(event.event_name)
        speaker_name_bytes == Utf8Encode(event.speaker_name)
        description_bytes == Utf8Encode(event.description)
        data == Serialize(event_name_bytes, event.start_time, event.end_time,
                          speaker_name_bytes, description_bytes)
    IN IF Len(event_name_bytes) > MAX_NAME_BYTES
       THEN [rejection |-> "Event name too long! Maximum 50 bytes allowed.", data |-> <<>>]
       ELSE IF Len(speaker_name_bytes) > MAX_SPEAKER_BYTES
       THEN [rejection |-> "Speaker name too long! Maximum 50 bytes allowed.", data |-> <<>>]
       ELSE IF Len(description_bytes) > MAX_DESCRIPTION_BYTES
       THEN [rejection |-> "Description too long! Maximum 138 bytes allowed.", data |-> <<>>]
       ELSE IF Len(data) > MAX_RECORD_BYTES
       THEN [rejection |-> "Serialized event size exceeds 250 bytes. Cannot save.",
             data |-> <<>>]
       ELSE [rejection |-> "", data |-> data]

\* the write part: [mem, log, out, raised].  Calendar_demo.py reads the record
\* back, CalendarReset.py does not
StoreRecord(prog, mem, address, data, plan) ==
    LET w == write_bytes_to_eeprom(prog, mem, address, data, plan, 0)
        saved == Append(w.out, "Event saved successfully.")
    IN IF prog = "CalendarReset"
       THEN [mem |-> w.mem, log |-> w.log, out |-> saved, raised |-> ""]
       ELSE LET v == read_bytes_from_eeprom(w.mem, address, Len(data), plan, w.call)
            IN [mem |-> w.mem, log |-> w.log \o v.log,
                out |-> saved \o v.out
                        \o (IF v.data = Some(data)
                            THEN <<"Verification Successful: Data written correctly.">>
                            ELSE <<"Verification Failed: Data mismatch.">>),
                raised |-> ""]

save_event_to_eeprom(prog, mem, event, address, plan) ==
    LET enc == EncodeEvent(event)
    IN IF enc.rejection # ""
       THEN [mem |-> mem, log |-> <<>>, out |-> <<enc.rejection>>, raised |-> ""]
       ELSE StoreRecord(prog, mem, address, enc.data, plan)

\* the transport calls a save of data makes when none fails
SaveCalls(prog, data) ==
    ((Len(data) + PAGE_SIZE - 1) \div PAGE_SIZE) + (IF prog = "Calendar_demo" THEN 1 ELSE 0)

(***************************************************************************)
(* load_event_from_eeprom                                                  *)
(***************************************************************************)
Loaded(result, raised, log, out) ==
    [result |-> result, raised |-> raised, log |-> log, out |-> out]

\* variant: a decoder that turns away a zero length and trusts every other
LengthVerdictTrusting(length, max, sentinel) ==
    IF length = 0 THEN "invalid" ELSE "ok"

\* variant: a range test that leaves the erased values 0xFF and 0xFFFF to the
\* test for the sentinel
LengthVerdictLeavingErased(length, max, sentinel) ==
    IF length = sentinel THEN "empty"
    ELSE IF length = 0 \/ (length > max /\ length \notin {255, 65535}) THEN "invalid"
    ELSE "ok"

\* a length byte as the decoder judges it: "empty", "invalid" or "ok".
\* Calendar_demo.py tests 0xFF before the range, for the name in every copy
LengthVerdict(length, max, sentinel) ==
    IF length = sentinel THEN "empty"
    ELSE IF length = 0 \/ length > max THEN "invalid"
    ELSE "ok"

\* description onward: address is where the 2-byte description length lies
LoadDescription(prog, mem, address, plan, call, log, out, event_name, start_time, end_time, speaker_name) ==
    LET r == read_bytes_from_eeprom(mem, address, 2, plan, call)
        log1 == log \o r.log
        out1 == out \o r.out
    IN IF r.data = None \/ Len(r.data[1]) # 2
       THEN Loaded(None, "", log1, Append(out1, "Failed to read description length."))
       ELSE LET description_length == FromBytes2(r.data[1])
                verdict == LengthVerdict(description_length, MAX_DESCRIPTION_BYTES,
                                         IF prog = "Calendar_demo" THEN 65535 ELSE -1)
            IN IF verdict = "empty"
               THEN Loaded(None, "", log1, Append(out1, "Description field is empty."))
               ELSE IF verdict = "invalid"
               THEN Loaded(None, "", log1, Append(out1, "Invalid description length"))
               ELSE LET d == read_string_from_eeprom(mem, address + 2, description_length,
                                                     plan, call + 1)
                        log2 == log1 \o d.log
                        out2 == out1 \o d.out
                    IN IF d.str = None
                       THEN Loaded(None, "", log2, Append(out2, "Invalid description"))
                       ELSE Loaded(Some(Event(event_name, start_time, end_time,
                                              speaker_name, d.str[1])),
                                   "", log2, Append(out2, "Event loaded successfully."))

\* speaker onward: address is where the speaker length byte lies
LoadSpeaker(prog, mem, address, plan, call, log, out, event_name, start_time, end_time) ==
    LET r == read_bytes_from_eeprom(mem, address, 1, plan, call)
        log1 == log \o r.log
        out1 == out \o r.out
    IN IF r.data = None
       THEN Loaded(None, "", log1, Append(out1, "Failed to read speaker name length."))
       ELSE IF r.data[1] = <<>>
       THEN Loaded(None, "IndexError", log1, out1)
       ELSE LET speaker_name_length == r.data[1][1]
                verdict == LengthVerdict(speaker_name_length, MAX_SPEAKER_BYTES,
                                         IF prog = "Calendar_demo" THEN ERASED ELSE -1)
            IN IF verdict = "empty"
               THEN Loaded(None, "", log1, Append(out1, "Speaker name field is empty."))
               ELSE IF verdict = "invalid"
               THEN Loaded(None, "", log1, Append(out1, "Invalid speaker name length"))
               ELSE LET n == read_string_from_eeprom(mem, address + 1, speaker_name_length,
                                                     plan, call + 1)
                        log2 == log1 \o n.log
                        out2 == out1 \o n.out
                    IN IF n.str = None
                       THEN Loaded(None, "", log2, Append(out2, "Invalid speaker name"))
                       ELSE LoadDescription(prog, mem, address + 1 + speaker_name_length,
                                            plan, call + 2, log2, out2, event_name,
                                            start_time, end_time, n.str[1])

\* the two times: address is where start_time lies
LoadTimes(prog, mem, address, plan, call, log, out, event_name) ==
    LET s == read_bytes_from_eeprom(mem, address, 4, plan, call)
        log1 == log \o s.log
        out1 == out \o s.out
    IN IF s.data = None \/ Len(s.data[1]) # 4
       THEN Loaded(None, "", log1, Append(out1, "Failed to read start time."))
       ELSE LET e == read_bytes_from_eeprom(mem, address + 4, 4, plan, call + 1)
                log2 == log1 \o e.log
                out2 == out1 \o e.out
            IN IF e.data = None \/ Len(e.data[1]) # 4
               THEN Loaded(None, "", log2, Append(out2, "Failed to read end time."))
               ELSE LoadSpeaker(prog, mem, address + 8, plan, call + 2, log2, out2,
                                event_name, FromBytes4(s.data[1]), FromBytes4(e.data[1]))

\* [result, raised, log, out]: result is None or the Event, raised names an
\* exception that leaves the function
load_event_from_eeprom(prog, mem, address, plan) ==
    LET r == read_bytes_from_eeprom(mem, address, 1, plan, 0)
    IN IF r.data = None
       THEN Loaded(None, "", r.log, Append(r.out, "Failed to read event name length."))
       ELSE IF r.data[1] = <<>>
       THEN Loaded(None, "IndexError", r.log, r.out)
       ELSE LET event_name_length == r.data[1][1]
                verdict == LengthVerdict(event_name_length, MAX_NAME_BYTES, ERASED)
            IN IF verdict = "empty"
               THEN Loaded(None, "", r.log, Append(r.out, "Event slot is empty."))
               ELSE IF verdict = "invalid"
               THEN Loaded(None, "", r.log, Append(r.out, "Invalid event name length"))
               ELSE LET n == read_string_from_eeprom(mem, address + 1, event_name_length,
                                                     plan, 1)
                        log1 == r.log \o n.log
                        out1 == r.out \o n.out
                    IN IF n.str = None
                       THEN Loaded(None, "", log1, Append(out1, "Invalid event name"))
                       ELSE LoadTimes(prog, mem, address + 1 + event_name_length, plan, 2,
                                      log1, out1, n.str[1])

(***************************************************************************)
(* wipe_eeprom                                                             *)
(***************************************************************************)
IsSpace(c) == c \in {9, 10, 11, 12, 13, 32}

RECURSIVE LStrip(_)
LStrip(s) == IF s # <<>> /\ IsSpace(Head(s)) THEN LStrip(Tail(s)) ELSE s

RECURSIVE RStrip(_)
RStrip(s) ==
    IF s # <<>> /\ IsSpace(s[Len(s)]) THEN RStrip(SubSeq(s, 1, Len(s) - 1)) ELSE s

Strip(s) == RStrip(LStrip(s))

Lower(s) == [i \in 1..Len(s) |-> IF s[i] >= 65 /\ s[i] <= 90 THEN s[i] + 32 ELSE s[i]]

\* variant: a prompt that goes on unless the answer is 'no' or 'n'
ConfirmedUnlessNo(answer) == Strip(Lower(answer)) \notin {<<110, 111>>, <<110>>}

\* confirmation not in ['yes', 'y']
Confirmed(answer) == Strip(Lower(answer)) \in {<<121, 101, 115>>, <<121>>}

\* variant: strokes of half a page
StrokeSizeHalfPage(addr) == PAGE_SIZE \div 2

\* chunk_size of the stroke at offset addr
StrokeSize(addr) ==
    LET remaining == EEPROM_SIZE - addr
    IN IF remaining >= PAGE_SIZE THEN PAGE_SIZE ELSE remaining

\* one turn of the for loop, at offset addr: [mem, call, log, out, raised].
\* raised names what write_bytes_to_eeprom lets out, for the except branch
WipeStroke(prog, mem, addr, plan, call, log, out) ==
    LET chunk_size == StrokeSize(addr)
        chunk == Fill(chunk_size, ERASED)
        w == write_bytes_to_eeprom(prog, mem, addr, chunk, plan, call)
    IN IF w.raised # ""
       THEN [mem |-> w.mem, call |-> w.call, log |-> log \o w.log, raised |-> w.raised,
             out |-> out \o w.out \o <<"Failed to wipe EEPROM at address">>]
       ELSE [mem |-> w.mem, call |-> w.call, log |-> log \o w.log, raised |-> "",
             out |-> out \o w.out
                     \o (IF prog = "Calendar_demo" THEN <<"Wiped">> ELSE <<>>)]

\* the turns for the offsets PAGE_SIZE * first .. PAGE_SIZE * (first + count - 1),
\* in order, up to the first that ends in the except branch (halving keeps the
\* evaluation shallow)
RECURSIVE WipeStrokes(_, _, _, _, _, _, _, _)
WipeStrokes(prog, mem, first, count, plan, call, log, out) ==
    IF count = 0
    THEN [mem |-> mem, call |-> call, log |-> log, out |-> out, raised |-> ""]
    ELSE IF count = 1
    THEN WipeStroke(prog, mem, PAGE_SIZE * first, plan, call, log, out)
    ELSE LET h == count \div 2
             l == WipeStrokes(prog, mem, first, h, plan, call, log, out)
         IN IF l.raised # "" THEN l
            ELSE WipeStrokes(prog, l.mem, first + h, count - h, plan, l.call, l.log, l.out)

\* variant: a loop that stops one page early
StrokeCountOneShort == (EEPROM_SIZE \div PAGE_SIZE) - 1

\* range(0, EEPROM_SIZE, PAGE_SIZE) has this many offsets
StrokeCount == (EEPROM_SIZE + PAGE_SIZE - 1) \div PAGE_SIZE

\* wipe_eeprom from "Wiping EEPROM..." to its return or "EEPROM wiped successfully."
WipeAll(prog, mem, plan) ==
    LET w == WipeStrokes(prog, mem, 0, StrokeCount, plan, 0, <<>>, <<"Wiping EEPROM...">>)
    IN IF w.raised # ""
       THEN [mem |-> w.mem, call |-> w.call, log |-> w.log, out |-> w.out,
             returned |-> TRUE]
       ELSE [mem |-> w.mem, call |-> w.call, log |-> w.log,
             out |-> Append(w.out, "EEPROM wiped successfully."), returned |-> FALSE]

verification_addresses ==
    <<0, 250, 500, 750, 1000, 1250, 1500, 1750, 2000, 2250, 2500, 2750, 3000, 3250,
      3500, 3750, 4000>>

\* the read-back loop of Calendar_demo.py: [raised, log, out].  data.hex() of
\* the mismatch message needs data to be bytes
RECURSIVE WipeVerification(_, _, _, _, _, _, _)
WipeVerification(mem, i, plan, call, all_wiped, log, out) ==
    IF i > Len(verification_addresses)
    THEN [raised |-> "", log |-> log,
          out |-> Append(out, IF all_wiped
                              THEN "Verification Successful: All checked addresses are wiped."
                              ELSE "Verification Failed: Some addresses were not wiped correctly.")]
    ELSE LET r == read_bytes_from_eeprom(mem, verification_addresses[i], 1, plan, call)
         IN IF r.data = Some(<<ERASED>>)
            THEN WipeVerification(mem, i + 1, plan, call + 1, all_wiped, log \o r.log,
                                  out \o r.out)
            ELSE IF r.data = None
            THEN [raised |-> "AttributeError", log |-> log \o r.log, out |-> out \o r.out]
            ELSE WipeVerification(mem, i + 1, plan, call + 1, FALSE, log \o r.log,
                                  out \o r.out \o <<"Verification Failed: Address contains">>)

(***************************************************************************)
(* Inputs                                                                  *)
(***************************************************************************)
\* "Ceremony", "Elliot", "Badges!" with the times 1730649600 and 1730653200
\* (the script takes them from time.mktime)
Ceremony ==
    Event(<<67, 101, 114, 101, 109, 111, 110, 121>>, <<26407, 40448>>, <<26407, 44048>>,
          <<69, 108, 108, 105, 111, 116>>, <<66, 97, 100, 103, 101, 115, 33>>)

\* 50, 50 and 138 bytes: sixteen 3-byte and one 2-byte character; 50 x 'S';
\* 134 x 'D' and one 4-byte character.  Times 2^32-1 and 0
FullEvent ==
    Event(Fill(16, 8364) \o <<233>>, <<65535, 65535>>, <<0, 0>>, Fill(50, 83),
          Fill(134, 68) \o <<128512>>)

\* seventeen 3-byte characters: 17 characters, 51 bytes
NameTooLong == [Ceremony EXCEPT !.event_name = Fill(17, 8364)]
SpeakerTooLong == [Ceremony EXCEPT !.speaker_name = Fill(51, 83)]
DescriptionTooLong == [Ceremony EXCEPT !.description = Fill(139, 68)]
EmptyName == [Ceremony EXCEPT !.event_name = <<>>]
EmptySpeaker == [Ceremony EXCEPT !.speaker_name = <<>>]
EmptyDescription == [Ceremony EXCEPT !.description = <<>>]

\* FullEvent with one more byte of description: 50, 50 and 139 bytes
FullEventAndOne == [FullEvent EXCEPT !.description = Fill(135, 68) \o <<128512>>]

Events ==
    {Ceremony, FullEvent, FullEventAndOne, NameTooLong, SpeakerTooLong,
     DescriptionTooLong, EmptyName, EmptySpeaker, EmptyDescription}

\* what the menu of Calendar_demo.py lets through: 0..4095 and a multiple of 250
MenuAccepts(address) ==
    address >= 0 /\ address <= MAX_MENU_ADDRESS /\ address % EVENT_SIZE = 0

Addresses == {a \in {0, 1250, 3750, 4000} : MenuAccepts(a)}

\* the addresses given to "Load Event": those above, and the slots of the
\* leftover content that no save of the model goes to
LoadAddresses ==
    Addresses \cup {a \in {250, 500, 750, 1000, 1500, 2000} : MenuAccepts(a)}

\* "y", " YES ", "no", "" and "yes!"
Answers ==
    {<<121>>, <<32, 89, 69, 83, 32>>, <<110, 111>>, <<>>, <<121, 101, 115, 33>>}

\* device content at power-up: erased, or left over by other use.  The
\* leftover has, by slot: 0 all ones (description length 257); 1 a speaker
\* length of 51; 2 a speaker length of 255; 3 a description length of 65535;
\* 4 a name that is no UTF-8; 5 a name length of 51 before ones; 6 the record
\* of Event("A", t, t, "A", "A") before erased cells; 7 and 16 zeros; 8 ones
\* with a description length of 139; 15 an erased first byte before ones;
\* every other slot 65s (name length 65)
LeftoverByte(a) ==
    LET slot == a \div EVENT_SIZE
        o == a % EVENT_SIZE
    IN IF slot = 0 THEN 1
       ELSE IF slot = 1 THEN (IF o = 0 THEN 1 ELSE IF o = 10 THEN 51 ELSE 65)
       ELSE IF slot = 5 THEN (IF o = 0 THEN 51 ELSE 1)
       ELSE IF slot = 8 THEN (IF o = 12 THEN 0 ELSE IF o = 13 THEN 139 ELSE 1)
       ELSE IF slot = 2 THEN (IF o = 0 THEN 1 ELSE IF o < 10 THEN 65 ELSE ERASED)
       ELSE IF slot = 3
            THEN (IF o = 0 \/ o = 10 THEN 1 ELSE IF o < 12 THEN 65 ELSE ERASED)
       ELSE IF slot = 4 THEN (IF o = 0 THEN 1 ELSE 200)
       ELSE IF slot = 6
            THEN (IF o \in {0, 10, 13} THEN 1 ELSE IF o = 12 THEN 0
                  ELSE IF o < 15 THEN 65 ELSE ERASED)
       ELSE IF slot = 7 \/ slot = 16 THEN 0
       ELSE IF slot = 15 THEN (IF o = 0 THEN ERASED ELSE 1)
       ELSE 65

\* the event that slot 6 of the leftover content holds
LeftoverEvent == Event(<<65>>, <<16705, 16705>>, <<16705, 16705>>, <<65>>, <<65>>)

ErasedByte(a) == ERASED

Erased ==
    [p \in 1..PageCount |->
        [j \in 1..PAGE_SIZE |-> ErasedByte(PAGE_SIZE * (p - 1) + (j - 1))]]

Leftover ==
    [p \in 1..PageCount |->
        [j \in 1..PAGE_SIZE |-> LeftoverByte(PAGE_SIZE * (p - 1) + (j - 1))]]

Images == {Erased, Leftover}

Programs == {"Calendar_demo", "CalendarReset"}

\* the files that hold a copy of load_event_from_eeprom
Files ==
    {"Calendar_demo", "CalendarReset", "ConnectingWithFriends",
     "i2cDectectionAndCalendarCombined_demo"}

\* the text a file's copy has: ConnectingWithFriends.py that of
\* CalendarReset.py, i2cDectectionAndCalendarCombined_demo.py that of
\* Calendar_demo.py (the copies of a pair differ in docstrings only)
DecoderOf(file) ==
    IF file \in {"CalendarReset", "ConnectingWithFriends"}
    THEN "CalendarReset" ELSE "Calendar_demo"

AddFault(plan, call, kind) ==
    IF call \in plan.fail \cup plan.short THEN plan
    ELSE IF kind = "fail" THEN [plan EXCEPT !.fail = @ \cup {call}]
    ELSE [plan EXCEPT !.short = @ \cup {call}]

\* the plans of at most budget faults of the given kinds among the first
\* calls transport calls of a step, and never past the first MaxFaultCall
RECURSIVE Plans(_, _, _)
Plans(budget, kinds, calls) ==
    IF budget <= 0 THEN {NoFaults}
    ELSE LET fewer == Plans(budget - 1, kinds, calls)
         IN fewer \cup {AddFault(p, c, k) :
                           p \in fewer, c \in 0..(Min(calls, MaxFaultCall) - 1), k \in kinds}

(***************************************************************************)
(* State                                                                   *)
(***************************************************************************)
VARIABLES
    program,     \* the script that runs on the badge
    eeprom,      \* the cells of the device
    pc,          \* "menu", "wipe_verify", "list", "crashed"
    last,        \* the operation under way or last completed (event: the
                 \* event passed to a save, the answer typed to a wipe;
                 \* wipedAt: the loop index a listing stood at when another
                 \* master of the bus erased the device, -1 if none did)
    listI,       \* list_all_events: the loop index i
    listed,      \* list_all_events: the <<i, event>> reported so far
    listPlan,    \* list_all_events: the faults that await this listing
    opsLeft,
    faultsLeft

vars == <<program, eeprom, pc, last, listI, listed, listPlan, opsLeft, faultsLeft>>

\* calls counts the transport reads and writes of log
Calls(log) == Cardinality({i \in DOMAIN log : log[i].op # "sleep"})

Op(op, event, address, result, raised, log, out, before, done) ==
    [op |-> op, event |-> event, address |-> address, result |-> result,
     raised |-> raised, log |-> log, out |-> out, before |-> before, done |-> done,
     wipedAt |-> -1]

\* main() of Calendar_demo.py wraps choices 4 and 5 in try/except Exception;
\* choices 7 and 8, and all of main() of CalendarReset.py, are not wrapped
Caught(prog, op) == prog = "Calendar_demo" /\ op \in {"save", "load"}

AfterCall(prog, op, raised) ==
    IF raised = "" \/ Caught(prog, op) THEN "menu" ELSE "crashed"

Init ==
    /\ program \in Programs
    /\ eeprom \in Images
    /\ pc = "menu"
    /\ last = Op("none", None, 0, None, "", <<>>, <<>>, eeprom, TRUE)
    /\ listI = 0
    /\ listed = <<>>
    /\ listPlan = NoFaults
    /\ opsLeft = MaxOps
    /\ faultsLeft = MaxFaults

SaveEvent(event, address) ==
    /\ pc = "menu"
    /\ opsLeft > 0
    /\ \E enc \in {EncodeEvent(event)} :
          IF enc.rejection # ""
          THEN /\ last' = Op("save", Some(event), address, None, "", <<>>,
                             <<enc.rejection>>, eeprom, TRUE)
               /\ UNCHANGED <<eeprom, faultsLeft, pc>>
          ELSE \E plan \in Plans(faultsLeft, {"fail", "short"}, SaveCalls(program, enc.data)) :
               \E s \in {StoreRecord(program, eeprom, address, enc.data, plan)} :
                  /\ eeprom' = s.mem
                  /\ last' = Op("save", Some(event), address, None, s.raised, s.log,
                                s.out, eeprom, TRUE)
                  /\ faultsLeft' = faultsLeft - FaultsIn(s.log)
                  /\ pc' = AfterCall(program, "save", s.raised)
    /\ opsLeft' = opsLeft - 1
    /\ UNCHANGED <<program, listI, listed, listPlan>>

LoadEvent(address, plan) ==
    /\ pc = "menu"
    /\ opsLeft > 0
    /\ \E l \in {load_event_from_eeprom(program, eeprom, address, plan)} :
          /\ last' = Op("load", None, address, l.result, l.raised, l.log, l.out,
                        eeprom, TRUE)
          /\ faultsLeft' = faultsLeft - FaultsIn(l.log)
          /\ pc' = AfterCall(program, "load", l.raised)
    /\ opsLeft' = opsLeft - 1
    /\ UNCHANGED <<program, eeprom, listI, listed, listPlan>>

\* list_all_events(): the call and the first print
ListEvents(plan) ==
    /\ pc = "menu"
    /\ opsLeft > 0
    /\ program = "Calendar_demo"
    /\ pc' = "list"
    /\ listI' = 0
    /\ listed' = <<>>
    /\ listPlan' = plan
    /\ last' = Op("list", None, 0, None, "", <<>>, <<"Listing All Events:">>, eeprom, FALSE)
    /\ opsLeft' = opsLeft - 1
    /\ UNCHANGED <<program, eeprom, faultsLeft>>

\* the faults of plan that lie at or after transport call from, renumbered from 0
Shift(plan, from) ==
    [fail |-> {c - from : c \in {d \in plan.fail : d >= from}},
     short |-> {c - from : c \in {d \in plan.short : d >= from}}]

\* variant: a loop that counts the slots from 1
ListAddressFromOne(i) == 0 + (i + 1) * EVENT_SIZE

\* addr = start_address + i * event_size, of list_all_events(0, 10, 250)
ListAddress(i) == 0 + i * EVENT_SIZE

\* variant: a listing that works on the content it found when it was called
ListSourceAtCall(now, atCall) == atCall

\* load_event_from_eeprom(addr) in the loop reads the device as it is at that
\* turn; nothing is fetched when the listing is called
ListSource(now, atCall) == now

\* one turn of the for loop of list_all_events(0, 10, 250)
ListNext ==
    /\ pc = "list"
    /\ listI < MAX_EVENTS
    /\ \E l \in {load_event_from_eeprom(program, ListSource(eeprom, last.before),
                                         ListAddress(listI),
                                         Shift(listPlan, Calls(last.log)))} :
          /\ last' = [last EXCEPT !.log = @ \o l.log,
                                  !.out = @ \o l.out
                                          \o (IF l.raised # "" THEN <<>>
                                              ELSE IF l.result # None THEN <<"Event">>
                                              ELSE <<"No valid data found.">>),
                                  !.raised = l.raised,
                                  !.done = (l.raised # "" \/ listI + 1 = MAX_EVENTS)]
          /\ listed' = IF l.raised = "" /\ l.result # None
                       THEN Append(listed, <<listI, l.result[1]>>) ELSE listed
          /\ faultsLeft' = faultsLeft - FaultsIn(l.log)
          /\ pc' = IF l.raised # "" THEN AfterCall(program, "list", l.raised)
                   ELSE IF listI + 1 = MAX_EVENTS THEN "menu" ELSE "list"
    /\ listI' = listI + 1
    /\ UNCHANGED <<program, eeprom, listPlan, opsLeft>>

\* wipe_eeprom() up to "EEPROM wiped successfully."; Calendar_demo.py asks first
WipeEeprom(answer) ==
    /\ pc = "menu"
    /\ opsLeft > 0
    /\ IF program = "Calendar_demo" /\ ~Confirmed(answer)
       THEN /\ last' = Op("wipe", Some(answer), 0, None, "", <<>>,
                          <<"EEPROM wipe canceled.">>, eeprom, TRUE)
            /\ UNCHANGED <<eeprom, faultsLeft, pc>>
       ELSE \E plan \in Plans(faultsLeft, {"fail"}, StrokeCount) :
            \E w \in {WipeAll(program, eeprom, plan)} :
               /\ eeprom' = w.mem
               /\ last' = Op("wipe", Some(answer), 0, None, "", w.log, w.out, eeprom,
                             program = "CalendarReset" \/ w.returned)
               /\ faultsLeft' = faultsLeft - FaultsIn(w.log)
               /\ pc' = IF program = "Calendar_demo" /\ ~w.returned
                        THEN "wipe_verify" ELSE "menu"
    /\ opsLeft' = opsLeft - 1
    /\ UNCHANGED <<program, listI, listed, listPlan>>

\* the verification step that ends wipe_eeprom() of Calendar_demo.py
WipeVerify(plan) ==
    /\ pc = "wipe_verify"
    /\ \E v \in {WipeVerification(eeprom, 1, plan, 0, TRUE, <<>>, <<>>)} :
          /\ last' = [last EXCEPT !.log = @ \o v.log, !.out = @ \o v.out,
                                  !.raised = v.raised, !.done = TRUE]
          /\ faultsLeft' = faultsLeft - FaultsIn(v.log)
          /\ pc' = AfterCall(program, "wipe", v.raised)
    /\ UNCHANGED <<program, eeprom, listI, listed, listPlan, opsLeft>>

Next ==
    \/ \E e \in Events, a \in Addresses : SaveEvent(e, a)
    \/ \E a \in LoadAddresses, plan \in Plans(faultsLeft, {"fail", "short"}, MaxFaultCall) :
          LoadEvent(a, plan)
    \/ \E plan \in Plans(faultsLeft, {"fail", "short"}, MaxFaultCall) : ListEvents(plan)
    \/ ListNext
    \/ \E answer \in (IF program = "Calendar_demo" THEN Answers ELSE {<<>>}) :
          WipeEeprom(answer)
    \/ \E plan \in Plans(faultsLeft, {"fail", "short"}, Len(verification_addresses)) :
          WipeVerify(plan)

Spec == Init /\ [][Next]_vars

\* the environment of spec section 4.4: another master of the I2C bus erases the
\* whole device between two turns of a listing's loop
ExternalWipe ==
    /\ pc = "list"
    /\ last.wipedAt = -1
    /\ eeprom' = Erased
    /\ last' = [last EXCEPT !.wipedAt = listI]
    /\ UNCHANGED <<program, pc, listI, listed, listPlan, opsLeft, faultsLeft>>

NextWithExternalWipe == Next \/ ExternalWipe

SpecWithExternalWipe == Init /\ [][NextWithExternalWipe]_vars

(***************************************************************************)
(* Vocabulary of the properties                                            *)
(***************************************************************************)
Printed(message) == \E i \in DOMAIN last.out : last.out[i] = message

NoShortRead(log) == \A i \in DOMAIN log : log[i].outcome # "short"

FailedWrite(log) ==
    \E i \in DOMAIN log : log[i].op = "write" /\ log[i].outcome = "fail"

\* the three length fields of the record that starts at address, read off the
\* cells: 1 byte, then 1 byte after name and times, then 2 bytes big-endian
LengthsInBounds(mem, address) ==
    LET name_length == CellAt(mem, address)
        speaker_at == address + 1 + name_length + 8
        speaker_length == CellAt(mem, speaker_at)
        description_at == speaker_at + 1 + speaker_length
        description_length ==
            256 * CellAt(mem, description_at) + CellAt(mem, description_at + 1)
    IN /\ name_length >= 1 /\ name_length <= 50
       /\ speaker_length >= 1 /\ speaker_length <= 50
       /\ description_length >= 1 /\ description_length <= 138

\* the faults that the reads of a load's log met, as a plan
PlanOf(log) ==
    [fail |-> {k - 1 : k \in {i \in DOMAIN log : log[i].outcome = "fail"}},
     short |-> {k - 1 : k \in {i \in DOMAIN log : log[i].outcome = "short"}}]

\* the bytes that the successful transport writes of log carried, in order
OkWrites(log) == SelectSeq(log, LAMBDA c : c.op = "write" /\ c.outcome = "ok")

\* the transport writes of log, successful or not, in order
Writes(log) == SelectSeq(log, LAMBDA c : c.op = "write")

WrittenBytes(log) == Concat([k \in 1..Len(OkWrites(log)) |-> OkWrites(log)[k].data])

(***************************************************************************)
(* Properties                                                              *)
(***************************************************************************)
\* C1: round trip.  A save of an event whose name and speaker are 1..50 bytes,
\* whose description is 1..138 bytes and whose times are 32-bit, at a slot
\* address 250 * i (i in 0..15), over any content and with no transport
\* failure, followed by a load of that address with no transport failure,
\* gives back an Event equal to the saved one in all five fields.
C1_SaveThenLoad ==
    (/\ last.op = "save"
     /\ last'.op = "load"
     /\ last'.address = last.address
     /\ \E i \in 0..15 : last.address = 250 * i
     /\ FaultsIn(last.log) = 0
     /\ FaultsIn(last'.log) = 0
     /\ \E e \in {last.event[1]} :
           /\ Len(Utf8Encode(e.event_name)) \in 1..50
           /\ Len(Utf8Encode(e.speaker_name)) \in 1..50
           /\ Len(Utf8Encode(e.description)) \in 1..138
           /\ \A t \in {e.start_time, e.end_time} : t[1] \in 0..65535 /\ t[2] \in 0..65535)
    => (last'.raised = "" /\ last'.result = last.event)

C1_RoundTrip == [][C1_SaveThenLoad]_vars

\* the 250-byte event, saved to the last slot over leftover content, comes back
C1_Witness ==
    /\ last.op = "load"
    /\ last.address = 3750
    /\ last.result = Some(FullEvent)
    /\ faultsLeft = MaxFaults
    /\ CellAt(eeprom, 0) = 1

\* C2: a save of an event whose name or speaker exceeds 50 bytes, or whose
\* description exceeds 138 bytes, makes no transport call at all (no write, no
\* read) and leaves every cell of the device as it was.
C2_OverBoundSaveDoesNoIO ==
    (/\ last.op = "save"
     /\ \E e \in {last.event[1]} :
           \/ Len(Utf8Encode(e.event_name)) > 50
           \/ Len(Utf8Encode(e.speaker_name)) > 50
           \/ Len(Utf8Encode(e.description)) > 138)
    => (last.log = <<>> /\ eeprom = last.before)

\* a 139-byte description in a record that is well under 250 bytes
C2_Witness ==
    /\ last.op = "save"
    /\ last.event = Some(DescriptionTooLong)
    /\ last.log = <<>>
    /\ Printed("Description too long! Maximum 138 bytes allowed.")

\* C3: when a chunk write of a save fails, neither success message ("Bytes
\* written to EEPROM successfully.", "Event saved successfully.") is printed:
\* they appear only when every chunk of the record was written.
C3_FailedSaveNotReportedSaved ==
    (last.op = "save" /\ FailedWrite(last.log))
    => (/\ ~Printed("Bytes written to EEPROM successfully.")
        /\ ~Printed("Event saved successfully."))

\* C4: the transport writes of one save are, in order, the 32-byte chunks of
\* the record at consecutive addresses; every write but the last succeeded;
\* and they stop at the first failed chunk or after the whole record.
C4_WritesArePrefix ==
    last.op = "save" =>
        \E data \in {EncodeEvent(last.event[1]).data} :
        \E w \in {SelectSeq(last.log, LAMBDA c : c.op = "write")} :
            /\ \A k \in DOMAIN w :
                  /\ w[k].address = last.address + 32 * (k - 1)
                  /\ w[k].data = SubSeq(data, 32 * (k - 1) + 1, Min(32 * k, Len(data)))
                  /\ w[k].data # <<>>
                  /\ k < Len(w) => w[k].outcome = "ok"
            /\ \/ 32 * Len(w) >= Len(data)
               \/ w # <<>> /\ w[Len(w)].outcome = "fail"

\* the third of the eight chunks of the 250-byte event fails: three writes
C4_Witness ==
    /\ last.op = "save"
    /\ last.event = Some(FullEvent)
    /\ Len(SelectSeq(last.log, LAMBDA c : c.op = "write")) = 3
    /\ \E i \in DOMAIN last.log :
          /\ last.log[i].op = "write"
          /\ last.log[i].outcome = "fail"
          /\ last.log[i].address = last.address + 64

\* C5: whatever transport reads and writes raise OSError, no operation of the
\* store (save, load, list, wipe with its read-back verification) lets an
\* exception out.
C5_NoFailureRaises ==
    NoShortRead(last.log) => last.raised = ""

\* C6: a load one of whose reads fails or delivers fewer bytes than asked
\* returns None and raises nothing.
C6_FaultyLoadReturnsNone ==
    (last.op = "load" /\ FaultsIn(last.log) > 0)
    => (last.result = None /\ last.raised = "")

\* C7: a load of a slot whose first cell holds 0xFF returns None, whatever the
\* other cells hold, after exactly one transport read, of that one byte (the
\* transport delivering what was asked, or raising).
C7_SentinelPrecedence ==
    (/\ last.op = "load"
     /\ CellAt(last.before, last.address) = 255
     /\ NoShortRead(last.log))
    => (/\ last.result = None
        /\ last.raised = ""
        /\ Len(last.log) = 1
        /\ last.log[1].op = "read"
        /\ last.log[1].address = last.address
        /\ last.log[1].length = 1)

\* slot 15 of the leftover content: 0xFF before 249 bytes that are not 0xFF
C7_Witness ==
    /\ last.op = "load"
    /\ last.address = 3750
    /\ last.before = Leftover
    /\ CellAt(last.before, 3751) = 1
    /\ last.log = <<ReadCall(3750, 1, "ok")>>
    /\ last.result = None

\* C8: a load returns an Event only when the name length, the speaker length
\* and the description length of the slot are in 1..50, 1..50 and 1..138; when
\* one of them is not, it returns None (the transport delivering what was
\* asked, or raising).  The same holds of every event that a listing reports.
C8_InvalidLengthRejection ==
    /\ (last.op = "load" /\ last.result # None)
       => LengthsInBounds(last.before, last.address)
    /\ (/\ last.op = "load"
        /\ NoShortRead(last.log)
        /\ ~LengthsInBounds(last.before, last.address))
       => (last.result = None /\ last.raised = "")
    /\ last.op = "list"
       => \A k \in DOMAIN listed : LengthsInBounds(last.before, 250 * listed[k][1])

\* slot 5 of the leftover content: a name length of 51, turned away at once
C8_Witness ==
    /\ last.op = "load"
    /\ last.address = 1250
    /\ CellAt(last.before, 1250) = 51
    /\ last.log = <<ReadCall(1250, 1, "ok")>>
    /\ last.result = None
    /\ Printed("Invalid event name length")

\* C9: after a wipe that made its writes with no transport failure, each of
\* the 4096 cells holds 0xFF and a load of slot i returns None for every i in
\* 0..15; a wipe of a device that is all 0xFF leaves it as it was.
C9_WipeErasesAll ==
    (last.op = "wipe" /\ last.log # <<>> /\ FaultsIn(last.log) = 0)
    => (/\ eeprom = [p \in 1..128 |-> [j \in 1..32 |-> 255]]
        /\ \A i \in 0..15 :
              \E l \in {load_event_from_eeprom(program, eeprom, 250 * i, NoFaults)} :
                 l.result = None /\ l.raised = ""
        /\ last.before = [p \in 1..128 |-> [j \in 1..32 |-> 255]] => eeprom = last.before)

\* a wipe of the leftover content
C9_Witness ==
    /\ last.op = "wipe"
    /\ last.done
    /\ last.before = Leftover
    /\ Len(SelectSeq(last.log, LAMBDA c : c.op = "write")) = 128
    /\ FaultsIn(last.log) = 0
    /\ CellAt(eeprom, 4095) = 255

\* C10: a save of an event whose name, speaker or description has no bytes
\* makes no transport write and leaves the device as it was.
C10_ZeroLengthSaveRejected ==
    (/\ last.op = "save"
     /\ \E e \in {last.event[1]} :
           e.event_name = <<>> \/ e.speaker_name = <<>> \/ e.description = <<>>)
    => (last.log = <<>> /\ eeprom = last.before)

\* C11 (as amended): the record of every event that a save accepts has 12
\* bytes plus the bytes of its three text fields, and at most 250; an event of
\* 50, 50 and 138 bytes gives a record of exactly 250 bytes, all written to
\* the slot; the same event with a 139-byte description is turned away with
\* no transport call.
C11_ExactFit ==
    (last.op = "save" /\ ~FailedWrite(last.log))
    => \E n \in {Len(Utf8Encode(last.event[1].event_name))} :
       \E s \in {Len(Utf8Encode(last.event[1].speaker_name))} :
       \E d \in {Len(Utf8Encode(last.event[1].description))} :
       \E written \in {WrittenBytes(last.log)} :
          /\ written # <<>> => (Len(written) = 12 + n + s + d /\ Len(written) <= 250)
          /\ (n = 50 /\ s = 50 /\ d = 138)
             => (Len(written) = 250 /\ DevRead(eeprom, last.address, 250) = written)
          /\ (n = 50 /\ s = 50 /\ d = 139) => last.log = <<>>

\* C11 as claimed: 11 bytes plus the bytes of the three text fields
C11_ExactFitEleven ==
    (last.op = "save" /\ ~FailedWrite(last.log))
    => \E n \in {Len(Utf8Encode(last.event[1].event_name))} :
       \E s \in {Len(Utf8Encode(last.event[1].speaker_name))} :
       \E d \in {Len(Utf8Encode(last.event[1].description))} :
       \E written \in {WrittenBytes(last.log)} :
          /\ written # <<>> => (Len(written) = 11 + n + s + d /\ Len(written) <= 250)
          /\ (n = 50 /\ s = 50 /\ d = 138)
             => (Len(written) = 250 /\ DevRead(eeprom, last.address, 250) = written)
          /\ (n = 50 /\ s = 50 /\ d = 139) => last.log = <<>>

\* the 50, 50 and 138 byte event written in eight chunks, 250 bytes in all
C11_Witness ==
    /\ last.op = "save"
    /\ last.event = Some(FullEvent)
    /\ Len(OkWrites(last.log)) = 8
    /\ Len(WrittenBytes(last.log)) = 250

\* C12: every address at which the menu of Calendar_demo.py saves or loads an
\* event is 250 * i for an i in 0..15, and no transport call of that save or
\* load touches a cell at 4000 or above.
C12_OnlySlotsZeroToFifteen ==
    (program = "Calendar_demo" /\ last.op \in {"save", "load"})
    => (/\ \E i \in 0..15 : last.address = 250 * i
        /\ \A k \in DOMAIN last.log :
              last.log[k].op \in {"write", "read"}
              => last.log[k].address + last.log[k].length <= 4000)

\* C13: every chunk that a save at 250 * i (i in 0..15) hands to the
\* transport lies inside one 32-byte page of the device: its first and its
\* last cell are on the same page.
C13_ChunksWithinOnePage ==
    (last.op = "save" /\ \E i \in 0..15 : last.address = 250 * i)
    => \A k \in DOMAIN last.log :
          last.log[k].op = "write"
          => (last.log[k].address \div 32
              = (last.log[k].address + last.log[k].length - 1) \div 32)

\* C14: a listing loads the slots 0, 1, 2, ... in this order, each once, at
\* address 250 * i, up to index 9; with no transport fault its transport calls
\* are those of these loads one after the other, and it reports index i (with
\* the loaded event) exactly when the load of slot i gives an Event; the
\* reported indices increase; a slot that gives None, or a read that raises
\* OSError, does not end the listing before index 9.
C14_Listing ==
    last.op = "list"
    => (/\ listI <= 10
        /\ \A k \in DOMAIN listed :
              /\ listed[k][1] \in 0..(listI - 1)
              /\ k > 1 => listed[k - 1][1] < listed[k][1]
        /\ (last.done /\ last.raised = "") => listI = 10
        /\ NoShortRead(last.log) => (last.raised = "" /\ (last.done <=> listI = 10))
        /\ FaultsIn(last.log) = 0
           => \E loads \in {[i \in 1..listI |->
                              load_event_from_eeprom(program, last.before, 250 * (i - 1),
                                                     NoFaults)]} :
                 /\ last.log = Concat([i \in 1..listI |-> loads[i].log])
                 /\ \A i \in 1..listI :
                       IF loads[i].result = None
                       THEN \A k \in DOMAIN listed : listed[k][1] # i - 1
                       ELSE \E k \in DOMAIN listed :
                               listed[k] = <<i - 1, loads[i].result[1]>>)

\* a listing over the leftover content after a save to slot 0: slots 0 and 6
\* are reported, the five invalid slots between them are not
C14_Witness ==
    /\ last.op = "list"
    /\ last.done
    /\ FaultsIn(last.log) = 0
    /\ listed = <<<<0, Ceremony>>, <<6, LeftoverEvent>>>>

\* C15: a listing that ran to its end with no transport fault has reported the
\* event of every slot i in 0..15 that holds a valid record.
C15_ListsAllStoredEvents ==
    (last.op = "list" /\ last.done /\ last.raised = "" /\ FaultsIn(last.log) = 0)
    => \A i \in 0..15 :
          \E l \in {load_event_from_eeprom(program, last.before, 250 * i, NoFaults)} :
             l.result # None
             => \E k \in DOMAIN listed : listed[k] = <<i, l.result[1]>>

\* C16: a load and a listing make transport reads only, on every path (a
\* rejected length, a read that raises or comes back short), and leave every
\* cell of the device as it was.
C16_LoadAndListNeverWrite ==
    last.op \in {"load", "list"}
    => (/\ \A k \in DOMAIN last.log : last.log[k].op = "read"
        /\ eeprom = last.before)

\* a load whose third read (the start time) raises OSError
C16_Witness ==
    /\ last.op = "load"
    /\ Len(last.log) = 3
    /\ last.log[3].outcome = "fail"
    /\ last.result = None
    /\ eeprom = last.before

C18_WipeFailureSurfaced ==
    (last.op = "wipe" /\ FailedWrite(last.log))
    => (/\ ~Printed("EEPROM wiped successfully.")
        /\ \A i \in DOMAIN last.log :
              (last.log[i].op = "write" /\ last.log[i].outcome = "fail")
              => \A j \in DOMAIN last.log : j > i => last.log[j].op # "write")

\* C19: the wipe of Calendar_demo.py, given an answer that is neither "yes"
\* nor "y" once blanks at both ends are dropped and capitals lowered (here
\* "no", "" and "yes!"), makes no transport call and leaves every cell as it
\* was; given "y" or " YES " it goes on to write.
C19_WipeAsksFirst ==
    (last.op = "wipe" /\ program = "Calendar_demo")
    => IF last.event[1] \in {<<110, 111>>, <<>>, <<121, 101, 115, 33>>}
       THEN last.log = <<>> /\ eeprom = last.before
       ELSE last.event[1] \in {<<121>>, <<32, 89, 69, 83, 32>>} /\ last.log # <<>>

\* the answer "yes!" stops the wipe of a device that holds leftover content
C19_Witness ==
    /\ last.op = "wipe"
    /\ program = "Calendar_demo"
    /\ last.event = Some(<<121, 101, 115, 33>>)
    /\ last.log = <<>>
    /\ eeprom = Leftover
    /\ Printed("EEPROM wipe canceled.")

\* C20: the event "Ceremony", 1730649600, 1730653200, "Elliot", "Badges!",
\* saved at address 0 with no transport failure, is written as a record of
\* exactly 33 bytes (1+8+4+4+1+6+2+7), and a load of address 0 that follows
\* with no transport failure gives back the same five fields.
C20_CeremonySaveThenLoad ==
    (/\ last.op = "save"
     /\ last.event = Some(Ceremony)
     /\ last.address = 0
     /\ FaultsIn(last.log) = 0)
    => (/\ Len(WrittenBytes(last.log)) = 33
        /\ WrittenBytes(last.log) = EncodeEvent(Ceremony).data
        /\ (last'.op = "load" /\ last'.address = 0 /\ FaultsIn(last'.log) = 0)
           => last'.result = Some(Ceremony))

C20_ConcreteScenario == [][C20_CeremonySaveThenLoad]_vars

\* C20 as first stated: the record written for that event is 34 bytes long
C20_CeremonyThirtyFour ==
    (/\ last.op = "save"
     /\ last.event = Some(Ceremony)
     /\ last.address = 0
     /\ FaultsIn(last.log) = 0)
    => (/\ Len(WrittenBytes(last.log)) = 34
        /\ (last'.op = "load" /\ last'.address = 0 /\ FaultsIn(last'.log) = 0)
           => last'.result = Some(Ceremony))

C20_ConcreteScenarioThirtyFour == [][C20_CeremonyThirtyFour]_vars

\* the script's own run: Ceremony saved at 0 in two chunks, then loaded back
C20_Witness ==
    /\ program = "CalendarReset"
    /\ last.op = "load"
    /\ last.address = 0
    /\ last.result = Some(Ceremony)
    /\ FaultsIn(last.log) = 0
    /\ Len(last.before[1]) = 32
    /\ SubSeq(last.before[1], 1, 9) = <<8, 67, 101, 114, 101, 109, 111, 110, 121>>
    /\ last.before[2][1] = 33
    /\ last.before[2][2] # 33

\* C21: the listing does not read ahead.  When the device is erased from
\* outside after the listing has loaded slots 0..k and before it loads slot
\* k + 1, the listing reports no event for any slot above k: every index it
\* reports is below the index it stood at when the device was erased.
C21_NoReadAhead ==
    (last.op = "list" /\ last.wipedAt >= 0)
    => \A n \in DOMAIN listed : listed[n][1] < last.wipedAt

\* a listing over Ceremony in slot 0 and the leftover event in slot 6, erased
\* from outside after its load of slot 2, ends with slot 0 alone reported
C21_Witness ==
    /\ last.op = "list"
    /\ last.done
    /\ last.wipedAt = 3
    /\ last.before # Erased
    /\ load_event_from_eeprom(program, last.before, 1500, NoFaults).result
          = Some(LeftoverEvent)
    /\ listed = <<<<0, Ceremony>>>>

\* C22: store semantics, in its shortest case.  A save to slot i (i in 0..15)
\* that ran without transport failure and reported "Event saved successfully.",
\* followed by a load of that slot without transport failure, gives back the
\* event of that save.
C22_LoadGivesLastSave ==
    (/\ last.op = "save"
     /\ \E i \in 0..15 : last.address = 250 * i
     /\ FaultsIn(last.log) = 0
     /\ Printed("Event saved successfully.")
     /\ last'.op = "load"
     /\ last'.address = last.address
     /\ FaultsIn(last'.log) = 0)
    => last'.result = last.event

C22_StoreSemantics == [][C22_LoadGivesLastSave]_vars

\* C23: partial write.  When chunk k (counted from 0) of a save is the first
\* whose transport write fails, the cells of the slot covered by chunks
\* 0..k-1 hold the bytes of the new record, and every cell of the slot from
\* the start of chunk k onward holds what it held before the save.
C23_PartialWrite ==
    (last.op = "save" /\ FailedWrite(last.log))
    => \E data \in {EncodeEvent(last.event[1]).data} :
       \E k \in {Len(OkWrites(last.log))} :
          /\ PAGE_SIZE * k < Len(data)
          /\ \A o \in 0..(EVENT_SIZE - 1) :
                CellAt(eeprom, last.address + o)
                = IF o < PAGE_SIZE * k THEN data[o + 1]
                  ELSE CellAt(last.before, last.address + o)

\* the 250-byte event saved at 1250 over leftover content, its fourth chunk
\* failing: 96 new bytes, then the old ones
C23_Witness ==
    /\ last.op = "save"
    /\ last.event = Some(FullEvent)
    /\ last.address = 1250
    /\ FailedWrite(last.log)
    /\ Len(OkWrites(last.log)) = 3
    /\ CellAt(last.before, 1250) = 51
    /\ CellAt(eeprom, 1250) = 50
    /\ CellAt(eeprom, 1250 + 95) = 83
    /\ CellAt(eeprom, 1250 + 96) = 1

\* C24: chunking.  For the n bytes of a record saved at address a, the
\* transport writes are, in order, chunk j (from 0) at a + 32 * j with bytes
\* 32 * j + 1 .. min(32 * j + 32, n) of the data, each of 1..32 bytes; with no
\* failure there are ceil(n / 32) of them and they join to exactly the data;
\* a write that fails is the last one, so no chunk is passed twice.
C24_Chunking ==
    last.op = "save"
    => \E data \in {EncodeEvent(last.event[1]).data} :
       \E W \in {Writes(last.log)} :
          /\ \A j \in DOMAIN W :
                /\ W[j].address = last.address + 32 * (j - 1)
                /\ W[j].length >= 1 /\ W[j].length <= 32
                /\ W[j].data = SubSeq(data, 32 * (j - 1) + 1, Min(32 * j, Len(data)))
                /\ W[j].outcome = "fail" => j = Len(W)
                /\ \A i \in DOMAIN W : i # j => W[i].address # W[j].address
          /\ ~FailedWrite(last.log)
             => /\ Len(W) = (Len(data) + 31) \div 32
                /\ Concat([j \in DOMAIN W |-> W[j].data]) = data

\* the 250-byte record at 3750: seven chunks of 32 bytes and one of 26
C24_Witness ==
    /\ last.op = "save"
    /\ last.address = 3750
    /\ ~FailedWrite(last.log)
    /\ Len(Writes(last.log)) = 8
    /\ Writes(last.log)[7].length = 32
    /\ Writes(last.log)[8].address = 3974
    /\ Writes(last.log)[8].length = 26

\* C25: wipe strokes.  A wipe none of whose writes fails writes at the
\* offsets 0, 32, 64, ... in increasing order; the stroke at an offset has
\* min(32, 4096 - offset) bytes, all 0xFF; the first stroke starts at 0, each
\* next one starts where the one before ended, the last ends at 4096: the
\* strokes cover [0, 4096) with no gap and no overlap and none reaches 4096.
C25_WipeStrokes ==
    (last.op = "wipe" /\ last.log # <<>> /\ ~FailedWrite(last.log))
    => \E W \in {Writes(last.log)} :
          /\ Len(W) = 128
          /\ W[1].address = 0
          /\ \A k \in DOMAIN W :
                /\ W[k].address = 32 * (k - 1)
                /\ W[k].length = Min(32, 4096 - W[k].address)
                /\ W[k].data = [n \in 1..W[k].length |-> 255]
                /\ W[k].address + W[k].length <= 4096
                /\ k < Len(W) => W[k + 1].address = W[k].address + W[k].length
          /\ W[Len(W)].address + W[Len(W)].length = 4096

\* the wipe of CalendarReset.py over leftover content, all strokes written
C25_Witness ==
    /\ last.op = "wipe"
    /\ program = "CalendarReset"
    /\ last.before = Leftover
    /\ ~FailedWrite(last.log)
    /\ Len(Writes(last.log)) = 128
    /\ Writes(last.log)[128].address = 4064
    /\ Printed("EEPROM wiped successfully.")

\* C26: settle delay ordering.  In a save and in a wipe, every transport
\* write that succeeded is followed at once by the settle delay of 10 ms: the
\* entry after it in the order of calls is that delay, and so no transport
\* write or read (the next chunk, the next stroke, the read-back) comes
\* between a successful write and its delay.
C26_SettleDelay ==
    last.op \in {"save", "wipe"}
    => \A i \in DOMAIN last.log :
          (last.log[i].op = "write" /\ last.log[i].outcome = "ok")
          => /\ i < Len(last.log)
             /\ last.log[i + 1].op = "sleep"
             /\ last.log[i + 1].length = 10

\* a save of Calendar_demo.py: write, delay, write, delay, read-back
C26_Witness ==
    /\ last.op = "save"
    /\ program = "Calendar_demo"
    /\ last.event = Some(Ceremony)
    /\ Len(last.log) = 5
    /\ last.log[1].op = "write" /\ last.log[2].op = "sleep"
    /\ last.log[3].op = "write" /\ last.log[4].op = "sleep"
    /\ last.log[5].op = "read" /\ last.log[5].length = 33

\* C27: record layout.  The bytes that a save without transport failure
\* writes for an event it accepts start at the save's address and are, in
\* order: 1 byte name length, the name's bytes, start_time in 4 bytes with the
\* most significant first, end_time likewise, 1 byte speaker length, the
\* speaker's bytes, the description length in 2 bytes with the most
\* significant first, the description's bytes; and nothing else.
C27_RecordLayout ==
    (last.op = "save" /\ last.log # <<>> /\ FaultsIn(last.log) = 0)
    => \E d \in {WrittenBytes(last.log)} :
       \E e \in {last.event[1]} :
       \E n \in {Utf8Encode(e.event_name)} :
       \E s \in {Utf8Encode(e.speaker_name)} :
       \E t \in {Utf8Encode(e.description)} :
          /\ Writes(last.log)[1].address = last.address
          /\ Len(d) = 1 + Len(n) + 4 + 4 + 1 + Len(s) + 2 + Len(t)
          /\ d[1] = Len(n)
          /\ SubSeq(d, 2, 1 + Len(n)) = n
          /\ SubSeq(d, 2 + Len(n), 5 + Len(n))
             = <<e.start_time[1] \div 256, e.start_time[1] % 256,
                 e.start_time[2] \div 256, e.start_time[2] % 256>>
          /\ SubSeq(d, 6 + Len(n), 9 + Len(n))
             = <<e.end_time[1] \div 256, e.end_time[1] % 256,
                 e.end_time[2] \div 256, e.end_time[2] % 256>>
          /\ d[10 + Len(n)] = Len(s)
          /\ SubSeq(d, 11 + Len(n), 10 + Len(n) + Len(s)) = s
          /\ d[11 + Len(n) + Len(s)] = Len(t) \div 256
          /\ d[12 + Len(n) + Len(s)] = Len(t) % 256
          /\ SubSeq(d, 13 + Len(n) + Len(s), Len(d)) = t

\* the record of "Ceremony", 1730649600, 1730653200, "Elliot", "Badges!"
C27_Witness ==
    /\ last.op = "save"
    /\ FaultsIn(last.log) = 0
    /\ WrittenBytes(last.log)
       = <<8, 67, 101, 114, 101, 109, 111, 110, 121, 103, 39, 158, 0, 103, 39, 172, 16,
           6, 69, 108, 108, 105, 111, 116, 0, 7, 66, 97, 100, 103, 101, 115, 33>>

\* C28: decode order.  The transport reads of a load are, in order, the name
\* length (1 byte at the slot address), the name, start_time (4), end_time
\* (4), the speaker length (1), the speaker, the description length (2), the
\* description; each has at least one byte and starts where the one before
\* ended, so the addresses increase strictly.  A read that raises or comes
\* back short is the last read, and so is a read whose value fails its test:
\* a name or speaker length outside 1..50, a description length outside
\* 1..138, a text that is no UTF-8.
C28_DecodeOrder ==
    last.op = "load"
    => \E L \in {last.log} :
          /\ Len(L) >= 1 /\ Len(L) <= 8
          /\ \A k \in DOMAIN L : L[k].op = "read" /\ L[k].length >= 1
          /\ L[1].address = last.address
          /\ \A k \in 1..(Len(L) - 1) :
                /\ L[k].outcome = "ok"
                /\ L[k + 1].address = L[k].address + L[k].length
                /\ L[k + 1].address > L[k].address
          /\ \A k \in DOMAIN L :
                \E v \in {DevRead(last.before, L[k].address, L[k].length)} :
                   /\ k \in {1, 5} => L[k].length = 1
                   /\ k \in {3, 4} => L[k].length = 4
                   /\ k = 7 => L[k].length = 2
                   /\ (k \in {1, 5} /\ (v[1] < 1 \/ v[1] > 50)) => Len(L) = k
                   /\ (k = 7 /\ (256 * v[1] + v[2] < 1 \/ 256 * v[1] + v[2] > 138))
                      => Len(L) = k
                   /\ (k \in {2, 6, 8} /\ ~Utf8Valid(v)) => Len(L) = k
                   /\ (k \in {1, 5} /\ k < Len(L)) => L[k + 1].length = v[1]
                   /\ (k = 7 /\ k < Len(L)) => L[k + 1].length = 256 * v[1] + v[2]
          /\ last.result # None => Len(L) = 8

\* the load of the Ceremony record at 0: eight reads, end to end
C28_Witness ==
    /\ last.op = "load"
    /\ last.result = Some(Ceremony)
    /\ last.log = <<ReadCall(0, 1, "ok"), ReadCall(1, 8, "ok"), ReadCall(9, 4, "ok"),
                    ReadCall(13, 4, "ok"), ReadCall(17, 1, "ok"), ReadCall(18, 6, "ok"),
                    ReadCall(24, 2, "ok"), ReadCall(26, 7, "ok")>>

\* C29: reads stay inside the slot.  Every transport read of a load at a slot
\* address a = 250 * i (i in 0..15) covers only addresses in [a, a + 250),
\* whatever the slot holds; and every read of a listing lies within one slot
\* and below 4000.
C29_ReadsInsideSlot ==
    /\ (last.op = "load" /\ \E i \in 0..15 : last.address = 250 * i)
       => \A k \in DOMAIN last.log :
             /\ last.log[k].address >= last.address
             /\ last.log[k].address + last.log[k].length <= last.address + 250
    /\ last.op = "list"
       => \A k \in DOMAIN last.log :
             /\ last.log[k].address + last.log[k].length
                <= 250 * (last.log[k].address \div 250) + 250
             /\ last.log[k].address + last.log[k].length <= 4000

\* the load of the 250-byte record in the last slot: its last read ends at 3999
C29_Witness ==
    /\ last.op = "load"
    /\ last.address = 3750
    /\ Len(last.log) = 8
    /\ last.log[8].length = 138
    /\ last.log[8].address + last.log[8].length = 4000

\* C30: the duplicated decoders agree.  Whatever a load found and whichever of
\* its reads failed or came back short, the copy of load_event_from_eeprom of
\* each of the four files, run on the same content at the same address with
\* the same reads failing, returns the same result (None, or an Event with the
\* same five fields), ends the same way and issues the same transport reads.
C30_DecodersAgree ==
    last.op = "load"
    => \A f \in Files :
          \E l \in {load_event_from_eeprom(DecoderOf(f), last.before, last.address,
                                           PlanOf(last.log))} :
             /\ l.result = last.result
             /\ l.raised = last.raised
             /\ l.log = last.log

\* a speaker length of 0xFF: CalendarReset.py calls it invalid where
\* Calendar_demo.py calls the field empty, after the same five reads
C30_Witness ==
    /\ last.op = "load"
    /\ program = "CalendarReset"
    /\ last.address = 500
    /\ CellAt(last.before, 510) = 255
    /\ Len(last.log) = 5
    /\ last.result = None
    /\ Printed("Invalid speaker name length")
    /\ \E l \in {load_event_from_eeprom("Calendar_demo", last.before, 500, NoFaults)} :
          /\ l.out[Len(l.out)] = "Speaker name field is empty."
          /\ l.log = last.log

====
